---- MODULE Spec2Model ----
(***************************************************************************)
(* Model of og_marl's FlashbaxReplayBuffer (src/og_marl/replay_buffers.py) *)
(* The wrapper keeps four pieces of state per buffer object:               *)
(*   _replay_buffer  the bundle of pure functions built by                  *)
(*                   fbx.make_trajectory_buffer (its configuration),        *)
(*   _buffer_state   None, or the trajectory buffer state                   *)
(*                   (experience, current_index, is_full),                  *)
(*   _rng_key        the sampler's random key,                              *)
(*   _sequence_length, _max_size, _batch_size.                             *)
(* The pure functions init / add / sample of the trajectory buffer and     *)
(* Vault(...).read() are library calls; they are modelled by what the      *)
(* calls made in replay_buffers.py do with the arguments passed there.     *)
(***************************************************************************)
EXTENDS Integers, Sequences, FiniteSets, TLC

(* ----------------------------- bounds ---------------------------------- *)
MaxSize == 3        \* max_size is drawn from 1..MaxSize
MaxSeqLen == 2      \* sequence_length is drawn from 1..MaxSeqLen
MaxPeriod == 2      \* sample_period is drawn from 1..MaxPeriod
MaxBatch == 2       \* batch_size is drawn from 1..MaxBatch
MaxSeed == 1        \* seed is drawn from 0..MaxSeed
MaxAdds == 5        \* successful add calls per buffer
MaxSamples == 2     \* sample calls per buffer
MaxLoads == 1       \* successful vault loads per buffer
MaxPairAdds == 2    \* successful add calls per buffer when two buffers run

Buffers == {1, 2}

None == [tag |-> "None"]

VARIABLES
    sequence_length,   \* self._sequence_length              (per buffer)
    max_size,          \* self._max_size                     (per buffer)
    batch_size,        \* self._batch_size                   (per buffer)
    sample_period,     \* constructor argument sample_period (per buffer)
    seed,              \* constructor argument seed          (per buffer)
    replay_buffer,     \* self._replay_buffer: configuration of the pure functions
    buffer_state,      \* self._buffer_state: None or TrajectoryBufferState
    rng_key,           \* self._rng_key
    ret,               \* outcome of the last call made on each buffer
    nadds,             \* number of add calls that returned normally
    nsamples,          \* number of sample calls made (failed ones included)
    nloads,            \* number of populate_from_vault calls that returned True
    loaded_at,         \* -1, or nadds at the last successful vault load
    log,               \* per buffer, one entry per sample call, in call order
    vault_addr,        \* per buffer, the location the last vault read addressed
    \* ---- the training systems (BaseMARLSystem, BaseOfflineSystem) ----
    pc,                \* where the running call stands ("idle": no call runs)
    variant,           \* the loop that runs: train_online, train_offline, train
    ncalls,            \* per loop, the calls made so far
    env_step_ctr,      \* BaseMARLSystem._env_step_ctr
    training_step_ctr, \* BaseOfflineSystem.training_step_ctr
    trainer_step_ctr,  \* train_offline's local trainer_step_ctr
    loop_i,            \* iterations of train's for loop made in this call
    start_ctr,         \* the trainer-step counter when the running call began
    args,              \* arguments of the running call
    ep_steps,          \* environment steps taken since the last reset
    terminals,         \* terminals returned by the last environment step
    truncations,       \* truncations returned by the last environment step
    eval_kind,         \* "periodic" or "final": the evaluation pass that runs
    eval_todo,         \* episodes the running evaluate call was asked for
    eval_done,         \* episodes the running evaluate call has completed
    eval_log,          \* one entry per evaluate call of the running call
    trained_at,        \* env-step counts after which train_online trained
    ntrain_steps,      \* train_step calls made by the running call
    observations,      \* the local observations: 0 is what the reset returned,
                       \* t what the t-th step of the episode returned
    rewards,           \* rewards returned by the last environment step
    episode_return,    \* the local episode_return
    trace,             \* calls train_online made in the running episode
    env_rewards,       \* the reward vectors the environment may return
    experience,        \* the window handed to _tf_train_step (batch of one)
    resets             \* the reset indicator _tf_train_step computed for it

bufvars == <<sequence_length, max_size, batch_size, sample_period, seed,
             replay_buffer, buffer_state, rng_key, ret, nadds, nsamples,
             nloads, loaded_at, log, vault_addr>>

sysvars == <<pc, variant, ncalls, env_step_ctr, training_step_ctr,
             trainer_step_ctr, loop_i, start_ctr, args, ep_steps,
             terminals, truncations, eval_kind, eval_todo, eval_done,
             eval_log, trained_at, ntrain_steps, observations, rewards,
             episode_return, trace, env_rewards, experience, resets>>

vars == <<bufvars, sysvars>>

(* --------------------------- transitions -------------------------------- *)
\* A stored time step.  src = "add": the n-th transition added to this buffer;
\* src = "vault": time step n of dataset ds; src = "empty": a slot that init
\* allocated and nothing has written yet.
Empty == [src |-> "empty", ds |-> "", n |-> 0]
Added(n) == [src |-> "add", ds |-> "", n |-> n]
VaultStep(ds, n) == [src |-> "vault", ds |-> ds, n |-> n]

\* Structure of a transition: the agent keys of its dicts, the trailing array
\* shape of its leaves and their dtype.
Structures ==
    { [keys |-> "agent_0,agent_1", shape |-> 2, dtype |-> "float32"],
      [keys |-> "agent_0,agent_1", shape |-> 1, dtype |-> "float32"],
      [keys |-> "agent_0,agent_1", shape |-> 3, dtype |-> "float32"],
      [keys |-> "agent_0,agent_1", shape |-> 2, dtype |-> "int32"],
      [keys |-> "agent_0",         shape |-> 2, dtype |-> "float32"] }

(* ------------------ jax.random, as used by sample ----------------------- *)
\* jax.random.PRNGKey(seed): the key is determined by the seed alone.
PRNGKey(s) == s

\* Variant of Split: the first half is the key that was passed in.
Split_stale(key) == <<key, 2 * key + 2>>

\* jax.random.split(key, 2): two fresh keys, both determined by key.  Keys are
\* nodes of a binary tree (children of node k are 2k+1 and 2k+2), which keeps
\* what the hash guarantees in practice: distinct keys have distinct children.
Split(key) == <<2 * key + 1, 2 * key + 2>>

\* Bits drawn for element i of a draw made with key.
Bits(key, i) == ((key + i) * (key + i + 1)) \div 2 + key

\* jax.random.randint(key, (n,), 0, maxval)[i]: uniform in [0, maxval); the
\* span is forced to 1 when maxval <= minval, so minval is returned then.
RandInt(key, i, maxval) == Bits(key, i) % (IF maxval <= 0 THEN 1 ELSE maxval)

(* --------------- flashbax trajectory buffer, as configured -------------- *)
\* fbx.make_trajectory_buffer(add_batch_size, sample_batch_size,
\*   sample_sequence_length, period, min_length_time_axis, max_size):
\* the time axis has max_size // add_batch_size steps.
MakeTrajectoryBuffer(add_bs, sample_bs, seq_len, period, min_len, size) ==
    [add_batch_size         |-> add_bs,
     sample_batch_size      |-> sample_bs,
     sample_sequence_length |-> seq_len,
     period                 |-> period,
     min_length_time_axis   |-> min_len,
     max_length_time_axis   |-> size \div add_bs]

\* self._replay_buffer.init(timestep): allocates max_length_time_axis empty
\* steps shaped like timestep; nothing is written.
BufferInit(rb, st) ==
    [experience    |-> [i \in 0 .. rb.max_length_time_axis - 1 |-> Empty],
     current_index |-> 0,
     is_full       |-> FALSE,
     structure     |-> st]

\* Length of the time axis of a state: read off the stored arrays.
TimeAxis(s) == Cardinality(DOMAIN s.experience)

\* What the jitted add checks before writing: same tree (agent keys), same
\* dtypes, and leaves that can be written into the time slot, i.e. whose
\* shape equals the stored one or broadcasts to it (shape 1).
AddAccepts(s, st) ==
    /\ st.keys = s.structure.keys
    /\ st.dtype = s.structure.dtype
    /\ (st.shape = s.structure.shape \/ st.shape = 1)

\* Variant of BufferAdd: a full buffer keeps what it holds and drops the new
\* time step.
BufferAdd_drop(s, t) ==
    LET len == Cardinality(DOMAIN s.experience)
        new_index == s.current_index + 1
    IN IF s.is_full THEN s
       ELSE [experience    |-> [s.experience EXCEPT ![s.current_index % len] = t],
             current_index |-> new_index % len,
             is_full       |-> s.is_full \/ new_index >= len,
             structure     |-> s.structure]

\* Variant of BufferAdd: the cursor stops at the last slot instead of
\* wrapping, so a full buffer overwrites its newest time step.
BufferAdd_nowrap(s, t) ==
    LET len == Cardinality(DOMAIN s.experience)
        at == IF s.is_full THEN len - 1 ELSE s.current_index % len
        new_index == s.current_index + 1
    IN [experience    |-> [s.experience EXCEPT ![at] = t],
        current_index |-> IF s.is_full THEN s.current_index ELSE new_index % len,
        is_full       |-> s.is_full \/ new_index >= len,
        structure     |-> s.structure]

\* self._buffer_add_fn(state, timestep) with one time step: write at the
\* cursor modulo the time axis, advance the cursor, latch is_full.
BufferAdd(s, t) ==
    LET len == TimeAxis(s)
        new_index == s.current_index + 1
    IN [experience    |-> [s.experience EXCEPT ![s.current_index % len] = t],
        current_index |-> new_index % len,
        is_full       |-> s.is_full \/ new_index >= len,
        structure     |-> s.structure]

\* Number of valid start items of the sampler in state s.
NumValidItems(rb, s) ==
    LET len == TimeAxis(s)
        max_time == IF s.is_full THEN len ELSE s.current_index
        max_start == max_time - rb.sample_sequence_length
    IN IF max_start >= 0 THEN (max_start \div rb.period) + 1 ELSE 0

\* Oldest valid step: the cursor once full, else 0.
head(s) == IF s.is_full THEN s.current_index ELSE 0

\* x % n as the jitted code computes it: 0 when n = 0.
JaxMod(x, n) == IF n = 0 THEN 0 ELSE x % n

\* Window i of self._buffer_sample_fn(state, sample_key): start offset (from
\* the head), the slots read and the steps found there.
SampleWindow(rb, s, key, i) ==
    LET len == TimeAxis(s)
        num == NumValidItems(rb, s)
        item == RandInt(key, i, num * rb.add_batch_size)
        start == JaxMod(item, num) * rb.period
        slots == [j \in 1 .. rb.sample_sequence_length |->
                      (head(s) + start + (j - 1)) % len]
    IN [start |-> start,
        slots |-> slots,
        steps |-> [j \in 1 .. rb.sample_sequence_length |-> s.experience[slots[j]]]]

BufferSample(rb, s, key) ==
    [i \in 1 .. rb.sample_batch_size |-> SampleWindow(rb, s, key, i)]

(* ------------------------------ vaults ---------------------------------- *)
VaultLen == 3       \* stored length of the longer dataset on disk

\* Vault(vault_name=f"{env_name}/{scenario_name}.vlt", ...): the vault's path
\* below rel_dir.
VaultName(env_name, scenario_name) == env_name \o "/" \o scenario_name \o ".vlt"

\* The datasets on disk: one vault, smac/3m.vlt under "vaults", holding the
\* datasets "Good" (VaultLen steps) and "Poor" (one step).
VaultIndex(rel_dir, vault_name, vault_uid) ==
    IF rel_dir = "vaults" /\ vault_name = "smac/3m.vlt" /\ vault_uid = "Good"
    THEN VaultLen
    ELSE IF rel_dir = "vaults" /\ vault_name = "smac/3m.vlt" /\ vault_uid = "Poor"
    THEN 1
    ELSE 0

VaultExists(rel_dir, vault_name, vault_uid) ==
    VaultIndex(rel_dir, vault_name, vault_uid) > 0

\* What Vault(...).read() raises: nothing for a dataset that is there;
\* ValueError when there is no vault at the location; for the dataset
\* "Medium", which is on disk without its metadata file, the file system's
\* error (an OSError).
VaultError(rel_dir, vault_name, vault_uid) ==
    IF VaultExists(rel_dir, vault_name, vault_uid) THEN "none"
    ELSE IF rel_dir = "vaults" /\ vault_name = "smac/3m.vlt" /\ vault_uid = "Medium"
    THEN "OSError"
    ELSE "ValueError"

\* The location a read addresses: Vault(vault_name, vault_uid, rel_dir).
VaultAddress(env_name, scenario_name, dataset_name, rel_dir) ==
    [rel_dir |-> rel_dir,
     vault_name |-> VaultName(env_name, scenario_name),
     vault_uid |-> dataset_name]

\* Vault(...).read(): the whole dataset as a full trajectory buffer state
\* whose time axis is the dataset's stored length.
VaultRead(rel_dir, vault_name, vault_uid) ==
    LET len == VaultIndex(rel_dir, vault_name, vault_uid)
    IN [experience    |-> [i \in 0 .. len - 1 |-> VaultStep(vault_uid, i + 1)],
        current_index |-> len,
        is_full       |-> TRUE,
        structure     |-> [keys |-> "agent_0,agent_1", shape |-> 2, dtype |-> "float32"]]

EnvNames == {"smac"}
ScenarioNames == {"3m", "8m"}
DatasetNames == {"Good", "Poor", "Medium"}

(* --------------------------- the wrapper -------------------------------- *)
NoAddress == [rel_dir |-> "", vault_name |-> "", vault_uid |-> ""]

Agents == {"agent_0", "agent_1"}

NoResets == [system |-> "none", value |-> <<>>]

NoRewards == [a \in Agents |-> 0]

UnitRewards == {[a \in Agents |-> 1]}

NoArgs == [max_env_steps |-> 0, train_period |-> 0, budget |-> 0,
           evaluate_every |-> 0, num_eval_episodes |-> 0]

\* BaseMARLSystem.__init__ and BaseOfflineSystem.__init__: both counters
\* start at 0; no call runs.
SysInit ==
    /\ pc = "idle"
    /\ variant = "none"
    /\ ncalls = [v \in {"train_online", "train_offline", "train",
                         "run_experiment"} |-> 0]
    /\ env_step_ctr = 0
    /\ training_step_ctr = 0
    /\ trainer_step_ctr = 0
    /\ loop_i = 0
    /\ start_ctr = 0
    /\ args = NoArgs
    /\ ep_steps = 0
    /\ terminals = [a \in Agents |-> FALSE]
    /\ truncations = [a \in Agents |-> FALSE]
    /\ eval_kind = "none"
    /\ eval_todo = 0
    /\ eval_done = 0
    /\ eval_log = <<>>
    /\ trained_at = {}
    /\ ntrain_steps = 0
    /\ observations = 0
    /\ rewards = NoRewards
    /\ episode_return = 0
    /\ trace = <<>>

NoCall == [op |-> "new", outcome |-> "none", key |-> 0, batch |-> <<>>,
           conforms |-> TRUE]

\* FlashbaxReplayBuffer.__init__ for every buffer of the run.  Both buffers
\* are constructed with the same parameters; only the seed may differ.
\* sequence_length <= max_size, as make_trajectory_buffer requires.
Construction ==
    /\ \E L \in 1 .. MaxSeqLen, m \in 1 .. MaxSize, bs \in 1 .. MaxBatch,
          p \in 1 .. MaxPeriod :
          /\ L <= m
          /\ sequence_length = [b \in Buffers |-> L]
          /\ max_size = [b \in Buffers |-> m]
          /\ batch_size = [b \in Buffers |-> bs]
          /\ sample_period = [b \in Buffers |-> p]
          /\ replay_buffer = [b \in Buffers |->
                                 MakeTrajectoryBuffer(1, bs, L, p, 1, m)]
    /\ seed \in [Buffers -> 0 .. MaxSeed]
    /\ rng_key = [b \in Buffers |-> PRNGKey(seed[b])]
    /\ buffer_state = [b \in Buffers |-> None]
    /\ ret = [b \in Buffers |-> NoCall]
    /\ nadds = [b \in Buffers |-> 0]
    /\ nsamples = [b \in Buffers |-> 0]
    /\ nloads = [b \in Buffers |-> 0]
    /\ loaded_at = [b \in Buffers |-> -1]
    /\ log = [b \in Buffers |-> <<>>]
    /\ vault_addr = [b \in Buffers |-> NoAddress]
    /\ SysInit

\* The buffers and systems of a run whose environment rewards every agent
\* with 1 at every step.
Init ==
    /\ Construction
    /\ env_rewards = UnitRewards
    /\ experience = <<>>
    /\ resets = NoResets

\* add(observations, actions, rewards, terminals, truncations, infos) with a
\* transition of structure st.  The first add allocates the state from the
\* transition; the jitted add then writes it or raises.
Add(b, st) ==
    /\ LET s0 == IF buffer_state[b] = None
                 THEN BufferInit(replay_buffer[b], st)
                 ELSE buffer_state[b]
           conforms == st = s0.structure
       IN IF AddAccepts(s0, st)
          THEN /\ buffer_state' = [buffer_state EXCEPT
                                       ![b] = BufferAdd(s0, Added(nadds[b] + 1))]
               /\ nadds' = [nadds EXCEPT ![b] = @ + 1]
               /\ ret' = [ret EXCEPT ![b] = [op |-> "add", outcome |-> "ok",
                              key |-> 0, batch |-> <<>>, conforms |-> conforms]]
          ELSE /\ buffer_state' = [buffer_state EXCEPT ![b] = s0]
               /\ nadds' = nadds
               /\ ret' = [ret EXCEPT ![b] = [op |-> "add", outcome |-> "error",
                              key |-> 0, batch |-> <<>>, conforms |-> conforms]]
    /\ UNCHANGED <<sequence_length, max_size, batch_size, sample_period, seed,
                   replay_buffer, rng_key, nsamples, nloads, loaded_at, log,
                   vault_addr>>

\* Variant of SampleOutcome: a missing state yields an empty batch.
SampleOutcome_silent(s) == "ok"

\* Outcome of the jitted sample on state s: it raises when there is no state.
SampleOutcome(s) == IF s = None THEN "error" ELSE "ok"

\* Variant of Sample: one key, shared by every buffer of the process, is read
\* and replaced (the key held by buffer 1).
Sample_global(b) ==
    /\ LET keys == Split(rng_key[1])
           sample_key == keys[2]
           failed == buffer_state[b] = None
           batch == IF failed THEN <<>>
                    ELSE BufferSample(replay_buffer[b], buffer_state[b], sample_key)
       IN /\ rng_key' = [rng_key EXCEPT ![1] = keys[1]]
          /\ ret' = [ret EXCEPT ![b] =
                        [op |-> "sample",
                         outcome |-> SampleOutcome(buffer_state[b]),
                         key |-> sample_key, batch |-> batch, conforms |-> TRUE]]
          /\ log' = [log EXCEPT ![b] = Append(@,
                        [state |-> buffer_state[b], rb |-> replay_buffer[b],
                         key |-> sample_key,
                         outcome |-> SampleOutcome(buffer_state[b]),
                         batch |-> batch])]
    /\ nsamples' = [nsamples EXCEPT ![b] = @ + 1]
    /\ UNCHANGED <<sequence_length, max_size, batch_size, sample_period, seed,
                   replay_buffer, buffer_state, nadds, nloads, loaded_at,
                   vault_addr>>

\* sample(): split the key, keep the first half, draw with the second.  With
\* no state yet (None) the jitted sample raises; the key has been replaced
\* by then.
Sample(b) ==
    /\ LET keys == Split(rng_key[b])
           sample_key == keys[2]
           failed == buffer_state[b] = None
           batch == IF failed THEN <<>>
                    ELSE BufferSample(replay_buffer[b], buffer_state[b], sample_key)
       IN /\ rng_key' = [rng_key EXCEPT ![b] = keys[1]]
          /\ ret' = [ret EXCEPT ![b] =
                        [op |-> "sample",
                         outcome |-> SampleOutcome(buffer_state[b]),
                         key |-> sample_key, batch |-> batch, conforms |-> TRUE]]
          /\ log' = [log EXCEPT ![b] = Append(@,
                        [state |-> buffer_state[b], rb |-> replay_buffer[b],
                         key |-> sample_key,
                         outcome |-> SampleOutcome(buffer_state[b]),
                         batch |-> batch])]
    /\ nsamples' = [nsamples EXCEPT ![b] = @ + 1]
    /\ UNCHANGED <<sequence_length, max_size, batch_size, sample_period, seed,
                   replay_buffer, buffer_state, nadds, nloads, loaded_at,
                   vault_addr>>

\* Variant of PopulateAnswer: every error of the read is answered with False.
PopulateAnswer_catchall(error) == "False"

\* except ValueError: return False.  Any other error of the read is not
\* caught and reaches the caller.
PopulateAnswer(error) == IF error = "ValueError" THEN "False" ELSE "error"

\* Variant of PopulateFromVault: the dataset is appended to the steps the
\* store already holds instead of replacing them.
PopulateFromVault_merge(b, env_name, scenario_name, dataset_name, rel_dir) ==
    /\ vault_addr' = [vault_addr EXCEPT ![b] =
           VaultAddress(env_name, scenario_name, dataset_name, rel_dir)]
    /\ LET vault_name == VaultName(env_name, scenario_name)
           read == VaultRead(rel_dir, vault_name, dataset_name)
           old == IF buffer_state[b] = None THEN <<>>
                  ELSE [j \in 1 .. (IF buffer_state[b].is_full
                                    THEN TimeAxis(buffer_state[b])
                                    ELSE buffer_state[b].current_index) |->
                           buffer_state[b].experience[
                               (head(buffer_state[b]) + j - 1) % TimeAxis(buffer_state[b])]]
           len == Len(old) + TimeAxis(read)
       IN IF VaultExists(rel_dir, vault_name, dataset_name)
          THEN /\ buffer_state' = [buffer_state EXCEPT ![b] =
                      [experience |-> [i \in 0 .. len - 1 |->
                                          IF i < Len(old) THEN old[i + 1]
                                          ELSE read.experience[i - Len(old)]],
                       current_index |-> len,
                       is_full |-> TRUE,
                       structure |-> read.structure]]
               /\ replay_buffer' = [replay_buffer EXCEPT ![b] =
                      MakeTrajectoryBuffer(1, batch_size[b], sequence_length[b],
                                           1, 1, sequence_length[b])]
               /\ nloads' = [nloads EXCEPT ![b] = @ + 1]
               /\ loaded_at' = [loaded_at EXCEPT ![b] = nadds[b]]
               /\ ret' = [ret EXCEPT ![b] = [op |-> "populate", outcome |-> "True",
                              key |-> 0, batch |-> <<>>, conforms |-> TRUE]]
          ELSE /\ ret' = [ret EXCEPT ![b] = [op |-> "populate",
                              outcome |-> PopulateAnswer(
                                  VaultError(rel_dir, vault_name, dataset_name)),
                              key |-> 0, batch |-> <<>>, conforms |-> TRUE]]
               /\ UNCHANGED <<buffer_state, replay_buffer, nloads, loaded_at>>
    /\ UNCHANGED <<sequence_length, max_size, batch_size, sample_period, seed,
                   rng_key, nadds, nsamples, log>>

\* Variant of PopulateFromVault: the store keeps the capacity it was
\* constructed with; only the last max_size steps of the dataset are kept.
PopulateFromVault_capped(b, env_name, scenario_name, dataset_name, rel_dir) ==
    /\ vault_addr' = [vault_addr EXCEPT ![b] =
           VaultAddress(env_name, scenario_name, dataset_name, rel_dir)]
    /\ LET vault_name == VaultName(env_name, scenario_name)
           read == VaultRead(rel_dir, vault_name, dataset_name)
           len == IF TimeAxis(read) <= max_size[b] THEN TimeAxis(read)
                  ELSE max_size[b]
       IN IF VaultExists(rel_dir, vault_name, dataset_name)
          THEN /\ buffer_state' = [buffer_state EXCEPT ![b] =
                      [experience |-> [i \in 0 .. len - 1 |->
                                          read.experience[TimeAxis(read) - len + i]],
                       current_index |-> len,
                       is_full |-> TRUE,
                       structure |-> read.structure]]
               /\ replay_buffer' = [replay_buffer EXCEPT ![b] =
                      MakeTrajectoryBuffer(1, batch_size[b], sequence_length[b],
                                           1, 1, sequence_length[b])]
               /\ nloads' = [nloads EXCEPT ![b] = @ + 1]
               /\ loaded_at' = [loaded_at EXCEPT ![b] = nadds[b]]
               /\ ret' = [ret EXCEPT ![b] = [op |-> "populate", outcome |-> "True",
                              key |-> 0, batch |-> <<>>, conforms |-> TRUE]]
          ELSE /\ ret' = [ret EXCEPT ![b] = [op |-> "populate",
                              outcome |-> PopulateAnswer(
                                  VaultError(rel_dir, vault_name, dataset_name)),
                              key |-> 0, batch |-> <<>>, conforms |-> TRUE]]
               /\ UNCHANGED <<buffer_state, replay_buffer, nloads, loaded_at>>
    /\ UNCHANGED <<sequence_length, max_size, batch_size, sample_period, seed,
                   rng_key, nadds, nsamples, log>>

\* Variant of PopulateFromVault: the pure functions are rebuilt before the
\* vault is read, so a failed read leaves the rebuilt sampler behind.
PopulateFromVault_rebuilt(b, env_name, scenario_name, dataset_name, rel_dir) ==
    /\ vault_addr' = [vault_addr EXCEPT ![b] =
           VaultAddress(env_name, scenario_name, dataset_name, rel_dir)]
    /\ replay_buffer' = [replay_buffer EXCEPT ![b] =
           MakeTrajectoryBuffer(1, batch_size[b], sequence_length[b],
                                1, 1, sequence_length[b])]
    /\ LET vault_name == VaultName(env_name, scenario_name)
       IN IF VaultExists(rel_dir, vault_name, dataset_name)
          THEN /\ buffer_state' = [buffer_state EXCEPT ![b] =
                      VaultRead(rel_dir, vault_name, dataset_name)]
               /\ nloads' = [nloads EXCEPT ![b] = @ + 1]
               /\ loaded_at' = [loaded_at EXCEPT ![b] = nadds[b]]
               /\ ret' = [ret EXCEPT ![b] = [op |-> "populate", outcome |-> "True",
                              key |-> 0, batch |-> <<>>, conforms |-> TRUE]]
          ELSE /\ ret' = [ret EXCEPT ![b] = [op |-> "populate",
                              outcome |-> PopulateAnswer(
                                  VaultError(rel_dir, vault_name, dataset_name)),
                              key |-> 0, batch |-> <<>>, conforms |-> TRUE]]
               /\ UNCHANGED <<buffer_state, nloads, loaded_at>>
    /\ UNCHANGED <<sequence_length, max_size, batch_size, sample_period, seed,
                   rng_key, nadds, nsamples, log>>

\* populate_from_vault(env_name, scenario_name, dataset_name, rel_dir): on a
\* vault that exists, the state is replaced by what was read and the pure
\* functions are rebuilt with period 1 and max_size = sequence_length; a
\* read that raises leaves the state as it was and is answered with False
\* when the error is a ValueError (no vault at the location).
PopulateFromVault(b, env_name, scenario_name, dataset_name, rel_dir) ==
    /\ vault_addr' = [vault_addr EXCEPT ![b] =
           VaultAddress(env_name, scenario_name, dataset_name, rel_dir)]
    /\ LET vault_name == VaultName(env_name, scenario_name)
       IN IF VaultExists(rel_dir, vault_name, dataset_name)
          THEN /\ buffer_state' = [buffer_state EXCEPT
                                      ![b] = VaultRead(rel_dir, vault_name, dataset_name)]
               /\ replay_buffer' = [replay_buffer EXCEPT ![b] =
                      MakeTrajectoryBuffer(1, batch_size[b], sequence_length[b],
                                           1, 1, sequence_length[b])]
               /\ nloads' = [nloads EXCEPT ![b] = @ + 1]
               /\ loaded_at' = [loaded_at EXCEPT ![b] = nadds[b]]
               /\ ret' = [ret EXCEPT ![b] = [op |-> "populate", outcome |-> "True",
                              key |-> 0, batch |-> <<>>, conforms |-> TRUE]]
          ELSE /\ ret' = [ret EXCEPT ![b] = [op |-> "populate",
                              outcome |-> PopulateAnswer(
                                  VaultError(rel_dir, vault_name, dataset_name)),
                              key |-> 0, batch |-> <<>>, conforms |-> TRUE]]
               /\ UNCHANGED <<buffer_state, replay_buffer, nloads, loaded_at>>
    /\ UNCHANGED <<sequence_length, max_size, batch_size, sample_period, seed,
                   rng_key, nadds, nsamples, log>>

\* One buffer object in use.
Next ==
    \/ \E st \in Structures :
           nadds[1] < MaxAdds /\ Add(1, st) /\ UNCHANGED sysvars
    \/ nsamples[1] < MaxSamples /\ Sample(1) /\ UNCHANGED sysvars
    \/ \E e \in EnvNames, sc \in ScenarioNames, d \in DatasetNames :
           /\ nloads[1] < MaxLoads
           /\ PopulateFromVault(1, e, sc, d, "vaults")
           /\ UNCHANGED sysvars

Spec == Init /\ [][Next]_vars

(* Two buffer objects in one process, used in any interleaving.            *)
MaxPairSize == 2    \* max_size when two buffers run

BaseStructure == [keys |-> "agent_0,agent_1", shape |-> 2, dtype |-> "float32"]

InitPair == Init /\ max_size[1] <= MaxPairSize /\ batch_size[1] = 1

NextPair ==
    \/ \E b \in Buffers :
           nadds[b] < MaxPairAdds /\ Add(b, BaseStructure) /\ UNCHANGED sysvars
    \/ \E b \in Buffers :
           nsamples[b] < MaxSamples /\ Sample(b) /\ UNCHANGED sysvars
    \/ \E b \in Buffers, d \in DatasetNames :
           /\ nloads[b] < MaxLoads
           /\ PopulateFromVault(b, "smac", "3m", d, "vaults")
           /\ UNCHANGED sysvars

SpecPair == InitPair /\ [][NextPair]_vars

(* ========================= the training loops =========================== *)
WarmUp == 100             \* env steps before the first training attempt
DefaultTrainPeriod == 20  \* train_period of train_online when not given
MaxEnvSteps == 121        \* largest max_env_steps a call is given
SmallTrainPeriod == 7     \* the other train_period a call is given
MaxEpLen == 3             \* time limit of the environment, in steps
MaxCalls == 2             \* calls of a training loop made on the systems

Flags == [Agents -> BOOLEAN]

AllFalse == [a \in Agents |-> FALSE]

AllTrue == [a \in Agents |-> TRUE]

\* Flags the environment may report at step n of an episode: any, until the
\* time limit truncates every agent.
EnvStep(n) ==
    IF n < MaxEpLen THEN Flags \X Flags
    ELSE {<<t, AllTrue>> : t \in Flags}

\* Variant of Done: the episode ends as soon as one agent is terminal or
\* truncated.
Done_anyAgent(term, trunc) == \E a \in Agents : term[a] \/ trunc[a]

\* all(terminals.values()) or all(truncations.values())
Done(term, trunc) == (\A a \in Agents : term[a]) \/ (\A a \in Agents : trunc[a])

\* Variant of TrainDue: training starts at the warm-up count itself.
TrainDue_atWarmUp(c, train_period) == c >= WarmUp /\ c % train_period = 0

\* self._env_step_ctr > 100 and self._env_step_ctr % train_period == 0
TrainDue(c, train_period) == c > WarmUp /\ c % train_period = 0

MaxReward == 2            \* largest reward an agent gets at a step

RECURSIVE SumOver(_, _)
\* sum(r[a] for a in S)
SumOver(r, S) ==
    IF S = {} THEN 0
    ELSE LET a == CHOOSE x \in S : TRUE
         IN r[a] + SumOver(r, S \ {a})

\* Reward vectors of the environment: any rewards up to MaxReward whose mean
\* over the agents is a whole number.
RewardVectors ==
    {r \in [Agents -> 0 .. MaxReward] : SumOver(r, Agents) % Cardinality(Agents) = 0}

\* Variant of MeanReward: the largest reward of the step.
MeanReward_max(r) == CHOOSE x \in {r[a] : a \in Agents} : \A a \in Agents : r[a] <= x

\* np.mean(list(rewards.values()), dtype="float")
MeanReward(r) == SumOver(r, Agents) \div Cardinality(Agents)

\* One call made by train_online: obs is the observation it is given (or
\* returns), step the step of the episode it belongs to.
Call(name, obs, step) == [call |-> name, obs |-> obs, step |-> step]

\* Variant of StoredObservation: the transition holds the observation the
\* step returned.
StoredObservation_next(obs, next_obs) == next_obs

\* The observation handed to add: `observations`, assigned from
\* next_observations only after the add.
StoredObservation(obs, next_obs) == obs

\* Variant of StepCalls: the transition is added before the step is taken.
StepCalls_addFirst(obs, t) ==
    <<Call("select_actions", obs, t),
      Call("add", StoredObservation(obs, t), t),
      Call("env.step", t, t)>>

\* The calls of one pass of the inner loop up to the training test, step t
\* of the episode, with `observations` = obs: the actions are selected from
\* obs, the step returns observation t, the transition is added.
StepCalls(obs, t) ==
    <<Call("select_actions", obs, t),
      Call("env.step", t, t),
      Call("add", StoredObservation(obs, t), t)>>

TotalCalls == ncalls["train_online"] + ncalls["train_offline"] + ncalls["train"]

\* train_online(replay_buffer, max_env_steps, train_period): entry of the call.
TrainOnline(max_env_steps, train_period) ==
    /\ pc = "idle"
    /\ TotalCalls < MaxCalls
    /\ pc' = "on_reset"
    /\ variant' = "train_online"
    /\ ncalls' = [ncalls EXCEPT !["train_online"] = @ + 1]
    /\ args' = [NoArgs EXCEPT !.max_env_steps = max_env_steps,
                              !.train_period = train_period]
    /\ start_ctr' = env_step_ctr
    /\ trained_at' = {}
    /\ ntrain_steps' = 0
    /\ eval_log' = <<>>
    /\ UNCHANGED <<env_step_ctr, training_step_ctr, trainer_step_ctr, loop_i,
                   ep_steps, terminals, truncations, eval_kind, eval_todo,
                   eval_done>>
    /\ UNCHANGED bufvars
    /\ UNCHANGED <<observations, rewards, episode_return, trace, env_rewards,
                   experience, resets>>

\* Variant of OnlineReset: the reset of the system restarts its step counter.
OnlineReset_zeroing ==
    /\ pc = "on_reset"
    /\ pc' = "on_step"
    /\ ep_steps' = 0
    /\ env_step_ctr' = 0
    /\ terminals' = AllFalse
    /\ truncations' = AllFalse
    /\ UNCHANGED <<variant, ncalls, training_step_ctr,
                   trainer_step_ctr, loop_i, start_ctr, args,
                   eval_kind, eval_todo, eval_done, eval_log, trained_at,
                   ntrain_steps>>
    /\ UNCHANGED bufvars
    /\ observations' = 0
    /\ rewards' = NoRewards
    /\ episode_return' = 0
    /\ trace' = <<Call("reset", 0, 0), Call("env.reset", 0, 0)>>
    /\ UNCHANGED <<env_rewards, experience, resets>>

\* Head of `while True`: the system and the environment are reset.
OnlineReset ==
    /\ pc = "on_reset"
    /\ pc' = "on_step"
    /\ ep_steps' = 0
    /\ terminals' = AllFalse
    /\ truncations' = AllFalse
    /\ UNCHANGED <<variant, ncalls, env_step_ctr, training_step_ctr,
                   trainer_step_ctr, loop_i, start_ctr, args,
                   eval_kind, eval_todo, eval_done, eval_log, trained_at,
                   ntrain_steps>>
    /\ UNCHANGED bufvars
    /\ observations' = 0
    /\ rewards' = NoRewards
    /\ episode_return' = 0
    /\ trace' = <<Call("reset", 0, 0), Call("env.reset", 0, 0)>>
    /\ UNCHANGED <<env_rewards, experience, resets>>

\* Where the inner loop goes after the training block: out of the episode
\* when the step ended it, else to the next step.
AfterTraining(term, trunc) ==
    IF Done(term, trunc) THEN "on_episode_end" ELSE "on_step"

\* One pass of the inner loop up to the training test: select actions, step
\* the environment, add the transition, count the step.
OnlineStep ==
    /\ pc = "on_step"
    /\ \E f \in EnvStep(ep_steps + 1) :
          /\ terminals' = f[1]
          /\ truncations' = f[2]
          /\ pc' = IF TrainDue(env_step_ctr + 1, args.train_period)
                   THEN "on_train"
                   ELSE AfterTraining(f[1], f[2])
    /\ Add(1, BaseStructure)
    /\ ep_steps' = ep_steps + 1
    /\ env_step_ctr' = env_step_ctr + 1
    /\ UNCHANGED <<variant, ncalls, training_step_ctr, trainer_step_ctr, loop_i,
                   start_ctr, args, eval_kind, eval_todo, eval_done,
                   eval_log, trained_at, ntrain_steps>>
    /\ \E r \in env_rewards :
          /\ rewards' = r
          /\ episode_return' = episode_return + MeanReward(r)
    /\ trace' = trace \o StepCalls(observations, ep_steps + 1)
    /\ observations' = ep_steps + 1
    /\ UNCHANGED <<env_rewards, experience, resets>>

\* The training block of the inner loop: one sample, one train_step on it,
\* then the end-of-episode test.
OnlineTrain ==
    /\ pc = "on_train"
    /\ Sample(1)
    /\ trained_at' = trained_at \cup {env_step_ctr}
    /\ ntrain_steps' = ntrain_steps + 1
    /\ pc' = AfterTraining(terminals, truncations)
    /\ UNCHANGED <<variant, ncalls, env_step_ctr, training_step_ctr,
                   trainer_step_ctr, loop_i, start_ctr, args,
                   ep_steps, terminals, truncations, eval_kind, eval_todo,
                   eval_done, eval_log>>
    /\ trace' = trace \o <<Call("sample", observations, ep_steps),
                            Call("train_step", observations, ep_steps)>>
    /\ UNCHANGED <<observations, rewards, episode_return, env_rewards,
                   experience, resets>>

\* Variant of OnlineFinished: the loop stops once the budget is reached.
OnlineFinished_reached(c, max_env_steps) == c >= max_env_steps

\* self._env_step_ctr > max_env_steps
OnlineFinished(c, max_env_steps) == c > max_env_steps

\* After the inner loop: the episode is counted and logged (the count goes
\* to the logger only), and the outer loop is left when the step counter
\* exceeds the budget.  The flags of the episode's last step are not read
\* again.
OnlineEpisodeEnd ==
    /\ pc = "on_episode_end"
    /\ pc' = IF OnlineFinished(env_step_ctr, args.max_env_steps)
             THEN "idle" ELSE "on_reset"
    /\ ep_steps' = 0
    /\ terminals' = AllFalse
    /\ truncations' = AllFalse
    /\ UNCHANGED <<variant, ncalls, env_step_ctr, training_step_ctr,
                   trainer_step_ctr, loop_i, start_ctr, args, eval_kind,
                   eval_todo, eval_done, eval_log, trained_at, ntrain_steps>>
    /\ UNCHANGED bufvars
    /\ observations' = 0
    /\ rewards' = NoRewards
    /\ episode_return' = 0
    /\ trace' = <<>>
    /\ UNCHANGED <<env_rewards, experience, resets>>

MaxTrainerSteps == 4           \* largest budget of trainer steps a call is given
SmallEvaluateEvery == 3        \* the short evaluation period a call is given
MaxEvalEpisodes == 1           \* largest num_eval_episodes a call is given
NoEvaluation == 0              \* stands for evaluate_every = None
DefaultEvaluationEvery == 5000 \* evaluation_every of train when not given
DefaultNumEvalEpisodes == 32   \* num_eval_episodes of train when not given
FinalFactor == 10              \* factor of the final evaluation of train

\* The counter the running offline loop tests and logs: the local
\* trainer_step_ctr of train_offline, the attribute training_step_ctr of
\* BaseOfflineSystem.train.
StepCtr == IF variant = "train_offline" THEN trainer_step_ctr ELSE training_step_ctr

\* train_offline(replay_buffer, max_trainer_steps, evaluate_every,
\* num_eval_episodes): entry of the call; the counter is a fresh local.
TrainOffline(max_trainer_steps, evaluate_every, num_eval_episodes) ==
    /\ pc = "idle"
    /\ TotalCalls < MaxCalls
    /\ pc' = "off_loop"
    /\ variant' = "train_offline"
    /\ ncalls' = [ncalls EXCEPT !["train_offline"] = @ + 1]
    /\ args' = [NoArgs EXCEPT !.budget = max_trainer_steps,
                              !.evaluate_every = evaluate_every,
                              !.num_eval_episodes = num_eval_episodes]
    /\ trainer_step_ctr' = 0
    /\ loop_i' = 0
    /\ start_ctr' = 0
    /\ trained_at' = {}
    /\ ntrain_steps' = 0
    /\ eval_log' = <<>>
    /\ UNCHANGED <<env_step_ctr, training_step_ctr, ep_steps, terminals,
                   truncations, eval_kind, eval_todo, eval_done>>
    /\ UNCHANGED bufvars
    /\ UNCHANGED <<observations, rewards, episode_return, trace, env_rewards,
                   experience, resets>>

\* BaseOfflineSystem.train(replay_buffer, training_steps, evaluation_every,
\* num_eval_episodes): entry of the call; the counter is the attribute that
\* __init__ set, and the loop is `for _ in range(training_steps)`.
Train(training_steps, evaluation_every, num_eval_episodes) ==
    /\ pc \in {"idle", "entry"}
    /\ TotalCalls < MaxCalls
    /\ pc' = "off_loop"
    /\ variant' = "train"
    /\ ncalls' = [ncalls EXCEPT !["train"] = @ + 1]
    /\ args' = [NoArgs EXCEPT !.budget = training_steps,
                              !.evaluate_every = evaluation_every,
                              !.num_eval_episodes = num_eval_episodes]
    /\ loop_i' = 0
    /\ start_ctr' = training_step_ctr
    /\ trained_at' = {}
    /\ ntrain_steps' = 0
    /\ eval_log' = <<>>
    /\ UNCHANGED <<env_step_ctr, training_step_ctr, trainer_step_ctr, ep_steps,
                   terminals, truncations, eval_kind, eval_todo, eval_done>>
    /\ UNCHANGED bufvars
    /\ UNCHANGED <<observations, rewards, episode_return, trace, env_rewards,
                   experience, resets>>

\* The loop test: `while trainer_step_ctr < max_trainer_steps` in
\* train_offline, `for _ in range(training_steps)` in train.
LoopContinues ==
    IF variant = "train_offline" THEN trainer_step_ctr < args.budget
    ELSE loop_i < args.budget

\* evaluate_every is not None and counter % evaluate_every == 0
EvalDue(c, evaluate_every) ==
    evaluate_every # NoEvaluation /\ c % evaluate_every = 0

\* Variant of FinalEpisodes: the final pass is as long as a periodic one in
\* both loops.
FinalEpisodes_same(v, num_eval_episodes) == num_eval_episodes

\* Episodes of the evaluation after the loop: evaluate(num_eval_episodes) in
\* train_offline, evaluate(10 * num_eval_episodes) in train.
FinalEpisodes(v, num_eval_episodes) ==
    IF v = "train_offline" THEN num_eval_episodes
    ELSE FinalFactor * num_eval_episodes

\* Head of an iteration of the offline loop, and the exit of the loop.
OfflineLoop ==
    /\ pc = "off_loop"
    /\ IF ~LoopContinues
       THEN /\ pc' = "ev_reset"
            /\ eval_kind' = "final"
            /\ eval_todo' = FinalEpisodes(variant, args.num_eval_episodes)
            /\ eval_done' = 0
       ELSE IF EvalDue(StepCtr, args.evaluate_every)
       THEN /\ pc' = "ev_reset"
            /\ eval_kind' = "periodic"
            /\ eval_todo' = args.num_eval_episodes
            /\ eval_done' = 0
       ELSE /\ pc' = "off_train"
            /\ UNCHANGED <<eval_kind, eval_todo, eval_done>>
    /\ UNCHANGED <<variant, ncalls, env_step_ctr, training_step_ctr,
                   trainer_step_ctr, loop_i, start_ctr, args, ep_steps,
                   terminals, truncations, eval_log, trained_at, ntrain_steps>>
    /\ UNCHANGED bufvars
    /\ UNCHANGED <<observations, rewards, episode_return, trace, env_rewards,
                   experience, resets>>

\* evaluate: head of `for _ in range(num_eval_episodes)`; the system and the
\* environment are reset.
EvalReset ==
    /\ pc = "ev_reset"
    /\ pc' = "ev_step"
    /\ ep_steps' = 0
    /\ terminals' = AllFalse
    /\ truncations' = AllFalse
    /\ UNCHANGED <<variant, ncalls, env_step_ctr, training_step_ctr,
                   trainer_step_ctr, loop_i, start_ctr, args, eval_kind,
                   eval_todo, eval_done, eval_log, trained_at, ntrain_steps>>
    /\ UNCHANGED bufvars
    /\ observations' = 0
    /\ rewards' = NoRewards
    /\ episode_return' = 0
    /\ UNCHANGED <<trace, env_rewards,
                   experience, resets>>

\* Variant of EvalStep: the evaluation adds its transitions to the buffer.
EvalStep_storing ==
    /\ pc = "ev_step"
    /\ ep_steps' = ep_steps + 1
    /\ \E f \in EnvStep(ep_steps + 1) :
          /\ terminals' = f[1]
          /\ truncations' = f[2]
          /\ IF ~Done(f[1], f[2])
             THEN /\ pc' = "ev_step"
                  /\ UNCHANGED eval_done
             ELSE /\ eval_done' = eval_done + 1
                  /\ pc' = IF eval_done + 1 < eval_todo THEN "ev_reset"
                           ELSE "ev_return"
    /\ UNCHANGED <<variant, ncalls, env_step_ctr, training_step_ctr,
                   trainer_step_ctr, loop_i, start_ctr, args, eval_kind,
                   eval_todo, eval_log, trained_at, ntrain_steps>>
    /\ Add(1, BaseStructure)
    /\ \E r \in env_rewards :
          /\ rewards' = r
          /\ episode_return' = episode_return + MeanReward(r)
    /\ observations' = ep_steps + 1
    /\ UNCHANGED <<trace, env_rewards,
                   experience, resets>>

\* evaluate: one pass of `while not done`; when the episode is over its
\* return is recorded and the `for` loop goes on or ends.
EvalStep ==
    /\ pc = "ev_step"
    /\ ep_steps' = ep_steps + 1
    /\ \E f \in EnvStep(ep_steps + 1) :
          /\ terminals' = f[1]
          /\ truncations' = f[2]
          /\ IF ~Done(f[1], f[2])
             THEN /\ pc' = "ev_step"
                  /\ UNCHANGED eval_done
             ELSE /\ eval_done' = eval_done + 1
                  /\ pc' = IF eval_done + 1 < eval_todo THEN "ev_reset"
                           ELSE "ev_return"
    /\ UNCHANGED <<variant, ncalls, env_step_ctr, training_step_ctr,
                   trainer_step_ctr, loop_i, start_ctr, args, eval_kind,
                   eval_todo, eval_log, trained_at, ntrain_steps>>
    /\ UNCHANGED bufvars
    /\ \E r \in env_rewards :
          /\ rewards' = r
          /\ episode_return' = episode_return + MeanReward(r)
    /\ observations' = ep_steps + 1
    /\ UNCHANGED <<trace, env_rewards,
                   experience, resets>>

\* evaluate returns its statistics and the caller logs the pass with the
\* counter: the loop goes on with the sample, or the call returns after the
\* final pass.
EvalReturn ==
    /\ pc = "ev_return"
    /\ pc' = IF eval_kind = "final" THEN "idle" ELSE "off_train"
    /\ eval_log' = Append(eval_log,
                          [at |-> StepCtr, done |-> ntrain_steps,
                           kind |-> eval_kind, episodes |-> eval_done])
    /\ ep_steps' = 0
    /\ terminals' = AllFalse
    /\ truncations' = AllFalse
    /\ UNCHANGED <<variant, ncalls, env_step_ctr, training_step_ctr,
                   trainer_step_ctr, loop_i, start_ctr, args, eval_kind,
                   eval_todo, eval_done, trained_at, ntrain_steps>>
    /\ UNCHANGED bufvars
    /\ observations' = 0
    /\ rewards' = NoRewards
    /\ episode_return' = 0
    /\ UNCHANGED <<trace, env_rewards,
                   experience, resets>>

\* Body of an iteration of the offline loop after the evaluation test: one
\* sample, one train_step on the batch, the counter incremented.  An error
\* of sample leaves the loop and the call.
OfflineTrain ==
    /\ pc = "off_train"
    /\ Sample(1)
    /\ IF SampleOutcome(buffer_state[1]) = "error"
       THEN /\ pc' = "raised"
            /\ UNCHANGED <<training_step_ctr, trainer_step_ctr, loop_i,
                           trained_at, ntrain_steps>>
       ELSE /\ pc' = "off_loop"
            /\ trained_at' = trained_at \cup {StepCtr}
            /\ ntrain_steps' = ntrain_steps + 1
            /\ IF variant = "train_offline"
               THEN /\ trainer_step_ctr' = trainer_step_ctr + 1
                    /\ UNCHANGED <<training_step_ctr, loop_i>>
               ELSE /\ training_step_ctr' = training_step_ctr + 1
                    /\ loop_i' = loop_i + 1
                    /\ UNCHANGED trainer_step_ctr
    /\ UNCHANGED <<variant, ncalls, env_step_ctr, start_ctr, args, ep_steps,
                   terminals, truncations, eval_kind, eval_todo, eval_done,
                   eval_log>>
    /\ UNCHANGED <<observations, rewards, episode_return, trace, env_rewards,
                   experience, resets>>

\* The task section of the configuration an offline entry point runs with.
EntryConfigs ==
    [source : {"og_marl"}, env : EnvNames, scenario : ScenarioNames,
     dataset : DatasetNames]

\* An offline entry point up to the construction of the system: the buffer
\* is built and populate_from_vault is called with source, env, scenario and
\* dataset in this order; its answer is not looked at.
RunExperiment(cfg) ==
    /\ pc = "idle"
    /\ TotalCalls = 0
    /\ buffer_state[1] = None
    /\ nloads[1] < MaxLoads
    /\ PopulateFromVault(1, cfg.source, cfg.env, cfg.scenario, cfg.dataset)
    /\ pc' = "entry"
    /\ ncalls' = [ncalls EXCEPT !["run_experiment"] = @ + 1]
    /\ UNCHANGED <<variant, env_step_ctr, training_step_ctr,
                   trainer_step_ctr, loop_i, start_ctr, args, ep_steps,
                   terminals, truncations, eval_kind, eval_todo, eval_done,
                   eval_log, trained_at, ntrain_steps>>
    /\ UNCHANGED <<observations, rewards, episode_return, trace, env_rewards,
                   experience, resets>>

\* One system of each class and one buffer (number 1), used by one thread.
\* Online collection, when it is run, comes first (a second call of
\* train_online is one with max_env_steps = 0); offline loops follow it or
\* run on a buffer a vault was read into.  The dataset read directly is
\* "Good", of a scenario that has a vault or of one that has none.
InitSys ==
    /\ Init
    /\ max_size[1] = MaxPairSize
    /\ batch_size[1] = 1
    /\ sample_period[1] = 1
    /\ seed = [b \in Buffers |-> 0]

NextSys ==
    \/ \E m \in {0, MaxEnvSteps}, p \in {DefaultTrainPeriod, SmallTrainPeriod} :
           /\ \/ TotalCalls = 0
              \/ ncalls["train_online"] = TotalCalls /\ m = 0
           /\ TrainOnline(m, p)
    \/ OnlineReset
    \/ OnlineStep
    \/ OnlineTrain
    \/ OnlineEpisodeEnd
    \/ \E n \in {0, MaxTrainerSteps},
          e \in {NoEvaluation, SmallEvaluateEvery},
          k \in 1 .. MaxEvalEpisodes :
           TrainOffline(n, e, k)
    \/ \E n \in {0, MaxTrainerSteps},
          e \in {NoEvaluation, SmallEvaluateEvery},
          k \in 1 .. MaxEvalEpisodes :
           pc = "idle" /\ Train(n, e, k)
    \/ OfflineLoop
    \/ EvalReset
    \/ EvalStep
    \/ EvalReturn
    \/ OfflineTrain
    \/ \E e \in EnvNames, sc \in ScenarioNames :
           /\ pc = "idle"
           /\ nloads[1] < MaxLoads
           /\ PopulateFromVault(1, e, sc, "Good", "vaults")
           /\ UNCHANGED sysvars
    \/ \E cfg \in EntryConfigs : RunExperiment(cfg)
    \/ pc = "entry" /\ Train(MaxTrainerSteps, DefaultEvaluationEvery,
                             DefaultNumEvalEpisodes)

SpecSys == InitSys /\ [][NextSys]_vars

\* Episodes of an environment whose rewards vary: online episodes of calls
\* with max_env_steps = 0 and the evaluation episodes of offline loops with
\* a budget of 0 trainer steps.
InitEpisode ==
    /\ Construction
    /\ sequence_length[1] = 1
    /\ max_size[1] = MaxPairSize
    /\ batch_size[1] = 1
    /\ sample_period[1] = 1
    /\ seed = [b \in Buffers |-> 0]
    /\ env_rewards = RewardVectors
    /\ experience = <<>>
    /\ resets = NoResets

NextEpisode ==
    \/ TrainOnline(0, DefaultTrainPeriod)
    \/ OnlineReset
    \/ OnlineStep
    \/ OnlineEpisodeEnd
    \/ \E k \in 1 .. MaxEvalEpisodes : TrainOffline(0, NoEvaluation, k)
    \/ \E k \in 1 .. MaxEvalEpisodes : pc = "idle" /\ Train(0, NoEvaluation, k)
    \/ OfflineLoop
    \/ EvalReset
    \/ EvalStep
    \/ EvalReturn

SpecEpisode == InitEpisode /\ [][NextEpisode]_vars

(* The head of _tf_train_step, on any window a sample may hand to it.      *)
MaxWindow == 2     \* longest window handed to a train step

\* The flags of the time steps of a window, as the stored numbers.
Windows ==
    UNION {[1 .. T -> [terminals : [Agents -> {0, 1}],
                       truncations : [Agents -> {0, 1}]]] : T \in 1 .. MaxWindow}

\* Variant of Resets: the state is reset where both flags are set.
Resets_both(window) ==
    [t \in DOMAIN window |->
        [a \in Agents |->
            IF window[t].terminals[a] <= window[t].truncations[a]
            THEN window[t].terminals[a] ELSE window[t].truncations[a]]]

\* resets = tf.maximum(terminals, truncations), element by element.
Resets(window) ==
    [t \in DOMAIN window |->
        [a \in Agents |->
            IF window[t].terminals[a] >= window[t].truncations[a]
            THEN window[t].terminals[a] ELSE window[t].truncations[a]]]

\* _tf_train_step of QMIXBCQSystem and of OMARSystem up to the unrolling of
\* the networks: the flags are unpacked and the reset indicator is computed.
TfTrainStep(system) ==
    /\ experience # <<>>
    /\ resets = NoResets
    /\ resets' = [system |-> system, value |-> Resets(experience)]
    /\ UNCHANGED <<bufvars, experience>>
    /\ UNCHANGED <<pc, variant, ncalls, env_step_ctr, training_step_ctr,
                   trainer_step_ctr, loop_i, start_ctr, args, ep_steps,
                   terminals, truncations, eval_kind, eval_todo, eval_done,
                   eval_log, trained_at, ntrain_steps, observations, rewards,
                   episode_return, trace, env_rewards>>

InitWindow ==
    /\ Construction
    /\ sequence_length[1] = 1
    /\ max_size[1] = MaxPairSize
    /\ batch_size[1] = 1
    /\ sample_period[1] = 1
    /\ seed = [b \in Buffers |-> 0]
    /\ env_rewards = UnitRewards
    /\ experience \in Windows
    /\ resets = NoResets

NextWindow == \E system \in {"qmix_bcq", "omar"} : TfTrainStep(system)

SpecWindow == InitWindow /\ [][NextWindow]_vars

(* ======================= properties of the buffer ======================= *)
Min(a, b) == IF a <= b THEN a ELSE b

\* Number of time steps of s that have been written (0 without a state).
Written(s) ==
    IF s = None THEN 0
    ELSE IF s.is_full THEN TimeAxis(s) ELSE s.current_index

\* The live time steps of s, oldest first.
LiveSeq(s) ==
    [j \in 1 .. Written(s) |-> s.experience[(head(s) + j - 1) % TimeAxis(s)]]

\* The time steps contained in the windows of a batch.
BatchSteps(batch) ==
    { batch[i].steps[j] : i \in DOMAIN batch, j \in 1 .. (IF batch = <<>> THEN 0 ELSE Len(batch[1].steps)) }

\* Buffers that have a state and were filled by add alone.
AddOnly(b) == buffer_state[b] # None /\ loaded_at[b] = -1

\* C1: in a buffer filled by add alone, after n successful adds the live
\* steps are exactly the last min(n, max_size) added transitions, oldest
\* first (so an add on a full store evicted the oldest one and nothing
\* else), and an add of a conforming transition never ends in an error.
C1_RingHoldsLastMaxSize ==
    \A b \in Buffers :
        /\ AddOnly(b) =>
              LET n == nadds[b]
                  k == Min(n, max_size[b])
              IN LiveSeq(buffer_state[b]) = [j \in 1 .. k |-> Added(n - k + j)]
        /\ (ret[b].op = "add" /\ ret[b].conforms) => ret[b].outcome = "ok"

\* An add has just evicted: the store is full and more than max_size
\* transitions have been added.
C1_Witness ==
    /\ AddOnly(1)
    /\ ret[1].op = "add" /\ ret[1].outcome = "ok"
    /\ nadds[1] >= max_size[1] + 2
    /\ max_size[1] >= 2

\* C2: in a buffer filled by max_size + k adds, every step of every sampled
\* window is one of the most recent max_size added transitions, and all of
\* these are stored.
C2_RingCorrectness ==
    \A b \in Buffers :
        (AddOnly(b) /\ nadds[b] >= max_size[b]) =>
            LET n == nadds[b]
                recent == { Added(j) : j \in n - max_size[b] + 1 .. n }
            IN /\ { buffer_state[b].experience[i] :
                       i \in DOMAIN buffer_state[b].experience } = recent
               /\ (ret[b].op = "sample" /\ ret[b].outcome = "ok") =>
                      BatchSteps(ret[b].batch) \subseteq recent

\* A sample taken after the ring has wrapped (k >= 1).
C2_Witness ==
    /\ AddOnly(1)
    /\ nadds[1] > max_size[1]
    /\ ret[1].op = "sample" /\ ret[1].outcome = "ok"
    /\ Len(ret[1].batch) = batch_size[1]

\* y was inserted right after x.
InsertedNext(b, x, y) ==
    \/ x.src = "add" /\ y.src = "add" /\ y.n = x.n + 1
    \/ x.src = "vault" /\ y.src = "vault" /\ y.ds = x.ds /\ y.n = x.n + 1
    \/ x.src = "vault" /\ y.src = "add" /\ y.n = loaded_at[b] + 1
          /\ x.n = TimeAxis(buffer_state[b])

\* C3 (as claimed): every sample returns batch_size windows of
\* sequence_length steps, and each window holds transitions that were
\* inserted one after the other, in insertion order.
C3_WindowsContiguous ==
    \A b \in Buffers :
        (ret[b].op = "sample" /\ ret[b].outcome = "ok") =>
            /\ Len(ret[b].batch) = batch_size[b]
            /\ \A i \in DOMAIN ret[b].batch :
                  LET w == ret[b].batch[i].steps
                  IN /\ Len(w) = sequence_length[b]
                     /\ \A j \in 1 .. Len(w) : w[j] # Empty
                     /\ \A j \in 1 .. Len(w) - 1 : InsertedNext(b, w[j], w[j + 1])

\* C4 (as claimed): with 1 <= n < max_size adds, no window of a sample that
\* returned holds a slot that was never written.
C4_NoUninitializedReads ==
    \A b \in Buffers :
        (AddOnly(b) /\ nadds[b] >= 1 /\ nadds[b] < max_size[b]
            /\ ret[b].op = "sample" /\ ret[b].outcome = "ok") =>
            Empty \notin BatchSteps(ret[b].batch)

\* C5: a sample call made on a store holding fewer than
\* min_length_time_axis written steps ended in an error, not in a batch.
C5_Underflow ==
    \A b \in Buffers :
        \A i \in DOMAIN log[b] :
            Written(log[b][i].state) < log[b][i].rb.min_length_time_axis =>
                log[b][i].outcome = "error" /\ log[b][i].batch = <<>>

\* A sample was called before any add and before any vault load.
C5_Witness ==
    /\ ret[1].op = "sample"
    /\ buffer_state[1] = None
    /\ nadds[1] = 0 /\ nloads[1] = 0

\* C6: two buffers constructed with the same seed and parameters select the
\* same windows (and fail alike) on their i-th sample call whenever the two
\* calls find the same store state and the same sampler configuration.
C6_SamplingDeterminism ==
    \A i \in DOMAIN log[1] \cap DOMAIN log[2] :
        (/\ seed[1] = seed[2]
         /\ log[1][i].state = log[2][i].state
         /\ log[1][i].rb = log[2][i].rb) =>
            /\ log[1][i].batch = log[2][i].batch
            /\ log[1][i].outcome = log[2][i].outcome

\* Both buffers, same seed, have sampled twice from equal non-empty stores
\* after different interleavings of their calls.
C6_Witness ==
    /\ seed[1] = seed[2]
    /\ Len(log[1]) = 2 /\ Len(log[2]) = 2
    /\ log[1][2].state = log[2][2].state
    /\ log[1][2].state # None
    /\ log[1][1].state # log[2][1].state
    /\ NumValidItems(log[1][2].rb, log[1][2].state) >= 2

\* C7: the key is per-buffer state.  No two sample calls of one buffer drew
\* with the same key; a sample call on b replaces b's key by one that differs
\* from it and from the key drawn with, and leaves every other buffer's key
\* as it was.
C7_KeyThreaded ==
    /\ [](\A b \in Buffers : \A i, j \in DOMAIN log[b] :
              i # j => log[b][i].key # log[b][j].key)
    /\ [][\A b \in Buffers :
              nsamples'[b] = nsamples[b] + 1 =>
                  /\ rng_key'[b] # rng_key[b]
                  /\ rng_key'[b] # ret'[b].key
                  /\ ret'[b].key # rng_key[b]
                  /\ \A c \in Buffers \ {b} : rng_key'[c] = rng_key[c]]_vars

\* Both buffers have sampled, buffer 1 twice.
C7_Witness ==
    /\ Len(log[1]) = 2 /\ Len(log[2]) >= 1
    /\ rng_key[1] # PRNGKey(seed[1])
    /\ rng_key[2] # PRNGKey(seed[2])

\* C8 (as claimed): an add whose transition deviates from the structure the
\* store was allocated with ends in an error and leaves the stored steps and
\* the cursor as they were.
C8_StructuralMismatch ==
    [][\A b \in Buffers : \A st \in Structures :
          (/\ buffer_state[b] # None
           /\ st # buffer_state[b].structure
           /\ Add(b, st)) =>
              /\ ret'[b].outcome = "error"
              /\ buffer_state'[b] = buffer_state[b]]_vars

\* C9 (as claimed, for samples taken with at least sequence_length steps
\* stored): the start offset of every window is a multiple of the
\* sample_period the buffer was constructed with and leaves sequence_length
\* stored steps ahead.
C9_StartsOnPeriod ==
    \A b \in Buffers :
        (/\ ret[b].op = "sample" /\ ret[b].outcome = "ok"
         /\ Written(buffer_state[b]) >= sequence_length[b]) =>
            \A i \in DOMAIN ret[b].batch :
                /\ ret[b].batch[i].start % sample_period[b] = 0
                /\ ret[b].batch[i].start + sequence_length[b]
                       <= Written(buffer_state[b])

\* The steps a store may hold after its last successful vault load: steps of
\* a dataset, or transitions added after the load.
AfterLoad(b, x) ==
    \/ x.src = "vault"
    \/ x.src = "add" /\ x.n > loaded_at[b]

\* C10: a successful populate_from_vault leaves exactly the dataset's steps,
\* in order, as the store's contents; from then on neither the store nor any
\* sampled window holds a transition added before the load.
C10_VaultReplaces ==
    /\ [](\A b \in Buffers :
              loaded_at[b] >= 0 =>
                  /\ \A i \in DOMAIN buffer_state[b].experience :
                         AfterLoad(b, buffer_state[b].experience[i])
                  /\ (ret[b].op = "sample" /\ ret[b].outcome = "ok") =>
                         \A x \in BatchSteps(ret[b].batch) : AfterLoad(b, x))
    /\ [][\A b \in Buffers :
              nloads'[b] = nloads[b] + 1 =>
                  \E e \in EnvNames, sc \in ScenarioNames, d \in DatasetNames :
                      LET len == VaultIndex("vaults", VaultName(e, sc), d)
                      IN /\ len > 0
                         /\ LiveSeq(buffer_state'[b]) =
                                [j \in 1 .. len |-> VaultStep(d, j)]]_vars

\* A vault was loaded over a store that held added transitions, and a sample
\* was taken afterwards.
C10_Witness ==
    /\ loaded_at[1] >= 2
    /\ ret[1].op = "sample" /\ ret[1].outcome = "ok"
    /\ TimeAxis(buffer_state[1]) >= 2

(* ======================= properties of the vault ======================== *)
\* Stored length of the dataset at the location buffer b read last.
AddressedLen(addr) == VaultIndex(addr.rel_dir, addr.vault_name, addr.vault_uid)

AddressedError(addr) == VaultError(addr.rel_dir, addr.vault_name, addr.vault_uid)

\* C11: a successful populate_from_vault leaves a store whose time axis, and
\* whose number of live steps, is the stored length of the dataset read,
\* whatever max_size was; the adds and samples that follow keep operating
\* with that capacity (the time axis and the number of live steps stay).
C11_CapacityIsDatasetLength ==
    [][\A b \in Buffers :
          /\ nloads'[b] = nloads[b] + 1 =>
                /\ TimeAxis(buffer_state'[b]) = AddressedLen(vault_addr'[b])
                /\ Written(buffer_state'[b]) = AddressedLen(vault_addr'[b])
          /\ (loaded_at[b] >= 0 /\ nloads'[b] = nloads[b]) =>
                /\ TimeAxis(buffer_state'[b]) = TimeAxis(buffer_state[b])
                /\ Written(buffer_state'[b]) = Written(buffer_state[b])]_vars

\* A dataset whose length differs from max_size was loaded and a transition
\* was added afterwards.
C11_Witness ==
    /\ loaded_at[1] >= 0
    /\ TimeAxis(buffer_state[1]) > max_size[1]
    /\ nadds[1] > loaded_at[1]
    /\ ret[1].op = "add" /\ ret[1].outcome = "ok"

\* C12 (as claimed): populate_from_vault answers False whenever the read
\* fails, for an absent as for an unreadable vault, and True exactly when the
\* state was loaded.
C12_FailureIsReturned ==
    \A b \in Buffers :
        ret[b].op = "populate" =>
            /\ (ret[b].outcome = "True") <=> (AddressedError(vault_addr[b]) = "none")
            /\ AddressedError(vault_addr[b]) # "none" => ret[b].outcome = "False"

\* C12 (amended): True exactly when the read succeeded, and the state is then
\* the one read; False when the read raised ValueError (no vault at the
\* location); any other error of the read reaches the caller.
C12_ValueErrorIsReturned ==
    \A b \in Buffers :
        ret[b].op = "populate" =>
            LET addr == vault_addr[b]
                err == AddressedError(addr)
            IN /\ (ret[b].outcome = "True") <=> (err = "none")
               /\ (ret[b].outcome = "False") <=> (err = "ValueError")
               /\ (ret[b].outcome = "error") <=> (err \notin {"none", "ValueError"})
               /\ ret[b].outcome = "True" =>
                      buffer_state[b] =
                          VaultRead(addr.rel_dir, addr.vault_name, addr.vault_uid)

\* A read of an absent vault was answered with False on a store that holds
\* added transitions.
C12_Witness ==
    /\ ret[1].op = "populate" /\ ret[1].outcome = "False"
    /\ AddressedError(vault_addr[1]) = "ValueError"
    /\ nadds[1] >= 1

\* C13: every vault read, the entry points' included, addresses the dataset
\* by (environment, scenario, dataset) under the base directory "vaults":
\* the location is environment/scenario.vlt and the dataset name selects the
\* dataset in it.
C13_ThreePartAddress ==
    [][/\ \A e \in EnvNames, sc \in ScenarioNames, d \in DatasetNames :
             PopulateFromVault(1, e, sc, d, "vaults") =>
                 vault_addr'[1] = [rel_dir |-> "vaults",
                                   vault_name |-> e \o "/" \o sc \o ".vlt",
                                   vault_uid |-> d]
       /\ \A cfg \in EntryConfigs :
             RunExperiment(cfg) =>
                 vault_addr'[1] = [rel_dir |-> "vaults",
                                   vault_name |-> cfg.env \o "/" \o cfg.scenario \o ".vlt",
                                   vault_uid |-> cfg.dataset]]_vars

(* ==================== properties of the training loops ================== *)
\* C15: in train_online and in evaluate, the episode ends after a step
\* exactly when the flags of that step are all terminal or all truncated;
\* while an agent is neither terminal nor truncated another step follows.
C15_EpisodeEnd ==
    [][LET over == \/ \A a \in Agents : terminals'[a]
                   \/ \A a \in Agents : truncations'[a]
           active == \E a \in Agents : ~terminals'[a] /\ ~truncations'[a]
       IN /\ pc = "ev_step" =>
                /\ (eval_done' = eval_done + 1) <=> over
                /\ (pc' = "ev_step") <=> ~over
                /\ active => pc' = "ev_step" /\ ep_steps' = ep_steps + 1
          /\ pc \in {"on_step", "on_train"} =>
                /\ pc' \in {"on_step", "on_train", "on_episode_end"}
                /\ pc' = "on_episode_end" => over
                /\ pc' = "on_step" => ~over
                /\ active => pc' # "on_episode_end"]_vars

\* An online episode goes on after a step that reported one agent terminal
\* and the other one truncated.
C15_Witness ==
    /\ pc = "on_step" /\ ep_steps >= 1
    /\ terminals["agent_0"] /\ ~terminals["agent_1"]
    /\ truncations["agent_1"] /\ ~truncations["agent_0"]

\* C16: during train_online the step counts after which one sample and one
\* train_step happened are exactly the counts c of this call with
\* c > 100 and c mod train_period = 0; no sample or train_step happens at
\* another count, and each training is one sample and one train_step.
C16_TrainingCadence ==
    /\ [](variant = "train_online" =>
            LET due == {c \in (start_ctr + 1) .. env_step_ctr :
                           c > 100 /\ c % args.train_period = 0}
                pending == IF pc = "on_train" THEN {env_step_ctr} ELSE {}
            IN /\ trained_at = due \ pending
               /\ pending \subseteq due
               /\ ntrain_steps = Cardinality(trained_at))
    /\ [][(variant = "train_online" /\ pc # "idle") =>
             /\ nsamples'[1] - nsamples[1] = ntrain_steps' - ntrain_steps
             /\ ntrain_steps' - ntrain_steps \in {0, 1}
             /\ ntrain_steps' # ntrain_steps =>
                   ret'[1].op = "sample" /\ ret'[1].outcome = "ok"]_vars

\* A call with train_period = 20 trained after step 120 and the counter has
\* gone on.
C16_Witness ==
    /\ variant = "train_online"
    /\ start_ctr = 0
    /\ args.train_period = DefaultTrainPeriod
    /\ trained_at = {WarmUp + DefaultTrainPeriod}
    /\ env_step_ctr > WarmUp + DefaultTrainPeriod

\* C17: train_online returns only at the end of an episode at which the step
\* counter exceeds max_env_steps, and at the first such end: it starts a new
\* episode only while the counter does not exceed max_env_steps.
C17_OnlineTermination ==
    /\ [][(variant = "train_online" /\ pc # "idle") =>
             /\ pc' = "idle" =>
                   pc = "on_episode_end" /\ env_step_ctr > args.max_env_steps
             /\ (pc = "on_episode_end" /\ env_step_ctr > args.max_env_steps) =>
                   pc' = "idle"
             /\ pc' = "on_reset" =>
                   pc = "on_episode_end" /\ env_step_ctr <= args.max_env_steps]_vars
    /\ []((/\ variant = "train_online"
           /\ pc \in {"on_step", "on_train", "on_episode_end"}
           /\ env_step_ctr - ep_steps > start_ctr) =>
              env_step_ctr - ep_steps <= args.max_env_steps)

\* A call returned at an episode end that overshot max_env_steps by more
\* than one step.
C17_Witness ==
    /\ variant = "train_online" /\ pc = "idle"
    /\ args.max_env_steps = MaxEnvSteps
    /\ env_step_ctr > MaxEnvSteps + 1

\* Entries of eval_log of the given kind.
Passes(kind) == {i \in 1 .. Len(eval_log) : eval_log[i].kind = kind}

\* C18: when an offline loop with budget N and evaluate_every = E has
\* returned, the periodic evaluation passes are those before the train steps
\* number s in {0, E, 2E, ...}, s < N, each once, and one more pass followed
\* the last train step.
C18_EvaluationCadence ==
    (/\ variant \in {"train_offline", "train"}
     /\ pc = "idle"
     /\ args.evaluate_every # NoEvaluation) =>
        /\ {eval_log[i].done : i \in Passes("periodic")} =
               {s \in 0 .. args.budget - 1 : s % args.evaluate_every = 0}
        /\ Cardinality(Passes("periodic")) =
               Cardinality({s \in 0 .. args.budget - 1 : s % args.evaluate_every = 0})
        /\ Passes("final") = {Len(eval_log)}
        /\ eval_log[Len(eval_log)].done = args.budget

\* C19: an offline loop trains only while its trainer-step counter is below
\* the budget, one sample and one train_step per iteration, runs its final
\* evaluation with the counter at the budget, and has returned with the
\* counter at the budget.
C19_EndsAtBudget ==
    variant \in {"train_offline", "train"} =>
        /\ pc = "off_train" => StepCtr < args.budget
        /\ (pc \in {"ev_reset", "ev_step", "ev_return"} /\ eval_kind = "final") =>
               StepCtr = args.budget
        /\ pc = "idle" => StepCtr = args.budget /\ ntrain_steps = args.budget

\* C20 (as claimed): every evaluation pass an offline loop logged, periodic
\* or final, ran num_eval_episodes episodes.
C20_SameEpisodesEveryPass ==
    variant \in {"train_offline", "train"} =>
        \A i \in 1 .. Len(eval_log) :
            eval_log[i].episodes = args.num_eval_episodes

\* C20 (amended): a periodic pass runs num_eval_episodes episodes; the final
\* pass runs num_eval_episodes episodes in train_offline and ten times as
\* many in train; an episode is counted only after a step that ended it, at
\* least one step after its reset.
C20_EpisodesPerPass ==
    /\ [](variant \in {"train_offline", "train"} =>
             /\ \A i \in 1 .. Len(eval_log) :
                   eval_log[i].episodes =
                       IF eval_log[i].kind = "final" /\ variant = "train"
                       THEN 10 * args.num_eval_episodes
                       ELSE args.num_eval_episodes
             /\ pc = "ev_return" => eval_done = eval_todo
             /\ pc \in {"ev_reset", "ev_step"} => eval_done < eval_todo)
    /\ [][eval_done' = eval_done + 1 =>
             /\ pc = "ev_step" /\ ep_steps' >= 1
             /\ \/ \A a \in Agents : terminals'[a]
                \/ \A a \in Agents : truncations'[a]]_vars

\* train has returned after trainer steps, with periodic passes and the
\* final pass in its log.
C20_Witness ==
    /\ variant = "train" /\ pc = "idle"
    /\ args.budget = MaxTrainerSteps
    /\ Passes("periodic") # {}
    /\ Passes("final") # {}

(* ================== properties of calls that fail ======================= *)
\* C29: a sample call that fails leaves the buffer as it was, its key
\* included.
C29_FailedSampleKeepsKey ==
    [][\A b \in Buffers :
          (nsamples'[b] = nsamples[b] + 1 /\ ret'[b].outcome = "error") =>
              /\ buffer_state'[b] = buffer_state[b]
              /\ replay_buffer'[b] = replay_buffer[b]
              /\ rng_key'[b] = rng_key[b]]_vars

\* C30: a populate_from_vault call that answers False leaves the stored
\* steps, the sampler configuration and the key as they were; one that
\* answers True leaves the key as it was.
C30_FailedLoadChangesNothing ==
    [][\A b \in Buffers :
          /\ (ret'[b].op = "populate" /\ ret'[b].outcome = "False") =>
                /\ buffer_state'[b] = buffer_state[b]
                /\ replay_buffer'[b] = replay_buffer[b]
                /\ rng_key'[b] = rng_key[b]
                /\ sequence_length'[b] = sequence_length[b]
                /\ batch_size'[b] = batch_size[b]
                /\ max_size'[b] = max_size[b]
                /\ sample_period'[b] = sample_period[b]
                /\ nadds'[b] = nadds[b]
          /\ nloads'[b] = nloads[b] + 1 => rng_key'[b] = rng_key[b]]_vars

\* A read was answered with False on a store that holds steps, was sampled
\* from, and samples with a period above the one a load installs.
C30_Witness ==
    /\ ret[1].op = "populate" /\ ret[1].outcome = "False"
    /\ buffer_state[1] # None
    /\ nsamples[1] >= 1
    /\ sample_period[1] > 1
    /\ replay_buffer[1].period = sample_period[1]

(* ======================= properties of an episode ======================= *)
\* C21: the episode return is 0 after each reset of the environment, online
\* and in evaluate, and each step adds to it the mean over the agents of the
\* rewards of that step.
C21_EpisodeReturn ==
    [][/\ pc \in {"on_reset", "ev_reset"} => episode_return' = 0
       /\ pc \in {"on_step", "ev_step"} =>
             /\ rewards' \in env_rewards
             /\ Cardinality(Agents) * (episode_return' - episode_return) =
                    SumOver(rewards', Agents)]_vars

\* Two steps into an online episode the return is 2, the second step having
\* rewarded the agents with 0 and 2.
C21_Witness ==
    /\ pc = "on_step" /\ ep_steps = 2
    /\ rewards["agent_0"] = 0 /\ rewards["agent_1"] = 2
    /\ episode_return = 2

(* ==================== properties of the train step ===================== *)
\* The agent's episode is over with step t of the window.
Flagged(window, t, a) ==
    window[t].terminals[a] = 1 \/ window[t].truncations[a] = 1

\* C22 (as claimed): the reset indicator is true, per agent, at exactly the
\* positions of the window that follow a step whose terminal or truncation
\* flag is true.
C22_ResetAfterFlaggedStep ==
    resets # NoResets =>
        \A t \in DOMAIN experience : \A a \in Agents :
            (resets.value[t][a] = 1) <=> (t > 1 /\ Flagged(experience, t - 1, a))

\* C22 (amended): the reset indicator is true, per agent, at exactly the
\* positions whose own terminal or truncation flag is true; where an episode
\* ends inside the window (all agents terminal, or all truncated, at a step
\* that is not the last one) every agent is flagged at that step.
C22_ResetAtFlaggedStep ==
    resets # NoResets =>
        /\ DOMAIN resets.value = DOMAIN experience
        /\ \A t \in DOMAIN experience : \A a \in Agents :
              /\ resets.value[t][a] \in {0, 1}
              /\ (resets.value[t][a] = 1) <=> Flagged(experience, t, a)
        /\ \A t \in DOMAIN experience :
              (/\ t < Len(experience)
               /\ \/ \A a \in Agents : experience[t].terminals[a] = 1
                  \/ \A a \in Agents : experience[t].truncations[a] = 1) =>
                  \A a \in Agents : resets.value[t][a] = 1

\* The indicator was computed for a window of two episodes: its first step
\* truncated every agent, its second step flags only one agent, as terminal.
C22_Witness ==
    /\ resets # NoResets
    /\ Len(experience) = 2
    /\ \A a \in Agents : experience[1].truncations[a] = 1 /\ experience[1].terminals[a] = 0
    /\ experience[2].terminals["agent_0"] = 1 /\ experience[2].truncations["agent_0"] = 0
    /\ ~Flagged(experience, 2, "agent_1")
    /\ resets.value[1]["agent_0"] = 1 /\ resets.value[2]["agent_1"] = 0

\* C23: while an offline loop runs (train steps and evaluation passes, up to
\* its return) no step adds to the buffer or reads a vault into it: the
\* buffer state (stored transitions, write cursor) and the buffer's
\* configuration stay as they are; only samples are taken.
C23_OfflineOnlySamples ==
    [][(variant \in {"train_offline", "train"} /\ pc \notin {"idle", "entry"}) =>
          /\ buffer_state' = buffer_state
          /\ replay_buffer' = replay_buffer
          /\ nadds' = nadds
          /\ nloads' = nloads
          /\ loaded_at' = loaded_at
          /\ vault_addr' = vault_addr]_vars

\* train has returned after its full budget of train steps and two
\* evaluation passes, on a buffer a vault was read into.
C23_Witness ==
    /\ variant = "train" /\ pc = "idle"
    /\ ntrain_steps = MaxTrainerSteps
    /\ Len(eval_log) >= 2
    /\ nloads[1] = 1 /\ buffer_state[1] # None
    /\ nsamples[1] >= MaxTrainerSteps

\* C24: in a run started from an offline entry point the buffer is populated
\* by one vault read before the loop starts, and every sample of the run is
\* taken on a buffer state that the read produced; no sample is taken on a
\* buffer without a state.
C24_SampledStoreWasPopulated ==
    (ncalls["run_experiment"] = 1 /\ pc # "entry") =>
        /\ nloads[1] = 1
        /\ \A i \in 1 .. Len(log[1]) :
              /\ log[1][i].state # None
              /\ log[1][i].outcome # "error"

\* C28: an episode of train_online or of evaluate that goes on to another
\* step after a step was taken has an agent that the step reported neither
\* terminal nor truncated: once every agent is finished, be it some as
\* terminal and the others as truncated, the episode loop has ended.
C28_EndsWhenAllFinished ==
    (pc \in {"on_step", "ev_step"} /\ ep_steps >= 1) =>
        \E a \in Agents : ~terminals[a] /\ ~truncations[a]

(* ================= properties of the online episode ==================== *)
\* The calls of an episode come in the order of the protocol up to
\* position i of the trace.
InOrder(tr, i) ==
    LET c == tr[i]
        prev == tr[i - 1]
    IN CASE c.call = "select_actions" ->
                /\ prev.call \in {"env.reset", "add", "train_step"}
                /\ (c.step = 1) <=> (prev.call = "env.reset")
                /\ prev.call # "env.reset" => c.step = prev.step + 1
                /\ i + 2 <= Len(tr)
         [] c.call = "env.step" ->
                prev.call = "select_actions" /\ prev.step = c.step
         [] c.call = "add" ->
                prev.call = "env.step" /\ prev.step = c.step
         [] c.call = "sample" ->
                /\ prev.call = "add" /\ prev.step = c.step
                /\ i + 1 <= Len(tr) /\ tr[i + 1].call = "train_step"
         [] c.call = "train_step" ->
                prev.call = "sample" /\ prev.step = c.step
         [] OTHER -> FALSE

\* C25: an episode of train_online starts with one reset of the system and
\* then one reset of the environment, before any action is selected; each
\* step is select_actions, environment step, add of its transition, and only
\* then, if due, sample and train_step.  The sample is taken on the buffer
\* state that holds the transition of the current step as its newest one,
\* and no add happens between the sample and its train_step.
C25_EpisodeProtocol ==
    /\ []((variant = "train_online" /\ pc \in {"on_step", "on_train", "on_episode_end"}) =>
             /\ Len(trace) >= 2
             /\ trace[1].call = "reset"
             /\ trace[2].call = "env.reset"
             /\ \A i \in 3 .. Len(trace) : InOrder(trace, i)
             /\ pc = "on_train" =>
                   /\ trace[Len(trace)].call = "add"
                   /\ LiveSeq(buffer_state[1])[Written(buffer_state[1])] = Added(nadds[1]))
    /\ [][pc = "on_train" =>
             /\ buffer_state' = buffer_state
             /\ nadds' = nadds
             /\ Len(log'[1]) = Len(log[1]) + 1
             /\ log'[1][Len(log'[1])].state = buffer_state[1]
             /\ log'[1][Len(log'[1])].outcome = "ok"]_vars

\* An episode trained after its second step and goes on with a third one.
C25_Witness ==
    /\ variant = "train_online" /\ pc = "on_step"
    /\ ep_steps = 2
    /\ Len(trace) = 10
    /\ trace[9].call = "sample" /\ trace[9].step = 2
    /\ trace[10].call = "train_step"

\* Positions of the add calls in the trace of the episode.
Adds(tr) == {i \in DOMAIN tr : tr[i].call = "add"}

\* C26: every transition train_online adds holds the observation the actions
\* of its step were selected from (the one of the reset, or the one the
\* previous step returned) together with what the step that executed them
\* returned; the transitions of an episode are added in step order, and the
\* observation the last step returned is in none of them.
C26_TransitionPairsObservation ==
    (variant = "train_online" /\ pc \in {"on_step", "on_train", "on_episode_end"}) =>
        /\ \A i \in Adds(trace) :
              /\ i > 2
              /\ trace[i - 2].call = "select_actions"
              /\ trace[i].obs = trace[i - 2].obs
              /\ trace[i].obs = trace[i].step - 1
              /\ trace[i - 1] = Call("env.step", trace[i].step, trace[i].step)
              /\ trace[i].step = Cardinality({j \in Adds(trace) : j <= i})
              /\ trace[i].obs # ep_steps
        /\ Cardinality(Adds(trace)) = ep_steps
        /\ observations = ep_steps

\* An episode of three steps has ended: its transitions hold the observation
\* of the reset and those of the first two steps.
C26_Witness ==
    /\ variant = "train_online" /\ pc = "on_episode_end"
    /\ ep_steps = 3
    /\ {trace[i].obs : i \in Adds(trace)} = {0, 1, 2}

\* C27: wherever train_online tests for training or for the end of the
\* episode, the env-step counter of the system is the number of environment
\* steps taken, which is the number of adds made, since the system was
\* created; the counter never decreases, is not reset between episodes or
\* between calls of train_online, and an evaluation episode neither changes
\* it nor adds to the buffer.
C27_StepCounter ==
    /\ [](pc \in {"on_reset", "on_step", "on_train", "on_episode_end"} =>
             env_step_ctr = nadds[1])
    /\ [][/\ env_step_ctr' >= env_step_ctr
          /\ pc = "on_step" =>
                env_step_ctr' = env_step_ctr + 1 /\ nadds'[1] = nadds[1] + 1
          /\ pc \in {"idle", "on_reset", "on_train", "on_episode_end"} =>
                env_step_ctr' = env_step_ctr
          /\ pc \in {"ev_reset", "ev_step", "ev_return"} =>
                /\ env_step_ctr' = env_step_ctr
                /\ nadds' = nadds
                /\ buffer_state' = buffer_state]_vars

\* A second call of train_online steps the environment: the counter goes on
\* from the count the first call ended with.
C27_Witness ==
    /\ variant = "train_online" /\ ncalls["train_online"] = 2
    /\ pc = "on_episode_end"
    /\ start_ctr > MaxEnvSteps
    /\ env_step_ctr > start_ctr
    /\ env_step_ctr = nadds[1]

====
